---- MODULE Spec2Model ----
(***************************************************************************)
(* Model of pbxbuild's SimpleExecutor (Sources/pbxbuild/Action/            *)
(* SimpleExecutor.cpp): build, SortInvocations, writeAuxiliaryFiles,       *)
(* performInvocations and buildTarget.                                     *)
(*                                                                         *)
(* The executor is sequential.  One action of the model is one step of     *)
(* its control flow: the entry of build, one iteration of the target       *)
(* loop, one auxiliary file, one iteration of the invocation loop, the     *)
(* end of a pass.  A step that makes the executor return carries the whole *)
(* unwinding up to the return of build.  The formatter is modelled by the  *)
(* log of the events it receives.                                          *)
(*                                                                         *)
(* A path is a pair <<directory, name>>.  An invocation is named in an     *)
(* event by its position in the vector handed to buildTarget, the identity *)
(* SortInvocations uses (the address of the vector's element);             *)
(* displayName is a function of the invocation and is left out.  The       *)
(* effects of a tool on the filesystem are outside the executor and are    *)
(* not modelled: the filesystem holds what the executor itself does.       *)
(***************************************************************************)
EXTENDS Integers, Sequences, FiniteSets, TLC

\* Bounds of the model.
MaxTargets == 2
MaxInvocations == 3

Targets == 1 .. MaxTargets

Range(s) == {s[i] : i \in DOMAIN s}

----------------------------------------------------------------------------
\* Paths, the filesystem and the built-in registry.

GetDirectoryName(path) == path[1]

AuxF == <<"aux", "f">>
AuxG == <<"aux", "g">>
OutX == <<"out", "x">>
OutY == <<"out", "y">>
OutZ == <<"aux", "z">>

Paths == {AuxF, AuxG, OutX, OutY, OutZ}
Directories == {GetDirectoryName(p) : p \in Paths}

NoFile == "<absent>"

\* dirs: the directories that exist; contents: what each path holds;
\* executable: the paths whose mode has an execute bit.
EmptyFilesystem ==
    [dirs |-> {}, contents |-> [p \in Paths |-> NoFile], executable |-> {}]

InitialFilesystems ==
    { EmptyFilesystem,
      [EmptyFilesystem EXCEPT !.dirs = {"aux"},
                              !.contents[AuxF] = "old",
                              !.executable = {AuxF}] }

TestForDirectory(f, directory) == directory \in f.dirs
TestForExecute(f, path) == f.contents[path] # NoFile /\ path \in f.executable

\* The names the built-in registry knows (builtin::Registry::driver).
Registry == {"copy"}

----------------------------------------------------------------------------
\* Invocations.

Invocation(path, builtin, cps, inputs, phonyInputs, inputDependencies, outputs, aux) ==
    [ executable |-> [path |-> path, builtin |-> builtin],
      createsProductStructure |-> cps,
      inputs |-> inputs,
      phonyInputs |-> phonyInputs,
      inputDependencies |-> inputDependencies,
      outputs |-> outputs,
      auxiliaryFiles |-> aux ]

AuxiliaryFile(path, contents, executable) ==
    [path |-> path, contents |-> contents, executable |-> executable]

\* The invocations the phase collaborator may hand to the executor.
InvocationShapes ==
    { \* external tools wired by their inputs and outputs
      Invocation("/tool", "", FALSE, {}, {}, {}, <<OutX>>, <<>>),
      Invocation("/tool", "", FALSE, {OutX}, {}, {}, <<OutY>>, <<>>),
      Invocation("/tool", "", FALSE, {}, {}, {OutY}, <<OutX>>, <<>>),
      \* structure-pass tools, the second with auxiliary files
      Invocation("/tool", "", TRUE, {}, {}, {}, <<OutY>>, <<>>),
      Invocation("/tool", "", TRUE, {OutX}, {}, {}, <<>>,
                 << AuxiliaryFile(AuxF, "script", TRUE),
                    AuxiliaryFile(AuxG, "list", FALSE) >>),
      \* a phony invocation, with an auxiliary file
      Invocation("", "", FALSE, {OutX}, {}, {}, <<OutY>>,
                 << AuxiliaryFile(AuxG, "list", FALSE) >>),
      \* built-in tools: known, unknown, and known with no path
      Invocation("/builtin-copy", "copy", FALSE, {}, {OutY}, {}, <<OutZ>>, <<>>),
      Invocation("/builtin-none", "none", FALSE, {OutY}, {}, {}, <<>>, <<>>),
      Invocation("", "copy", FALSE, {OutY}, {}, {}, <<>>,
                 << AuxiliaryFile(AuxF, "script", TRUE) >>) }

\* The vectors of at most n invocations.
RECURSIVE InvocationLists(_)
InvocationLists(n) ==
    IF n = 0 THEN {<<>>}
    ELSE LET shorter == InvocationLists(n - 1)
         IN  shorter \cup {Append(l, i) : l \in shorter, i \in InvocationShapes}

----------------------------------------------------------------------------
\* Formatter events.

Event(type) ==
    [type |-> type, target |-> 0, inv |-> 0, phase |-> FALSE,
     path |-> <<>>, failing |-> <<>>]

TargetEvent(type, target) == [Event(type) EXCEPT !.target = target]
PathEvent(type, path) == [Event(type) EXCEPT !.path = path]
InvocationEvent(type, inv, phase) == [Event(type) EXCEPT !.inv = inv, !.phase = phase]
FailureEvent(failing) == [Event("failure") EXCEPT !.failing = failing]

----------------------------------------------------------------------------
\* DirectedGraph: nodes in the order they were first seen, and the
\* predecessors of each.

EmptyGraph == [nodes |-> <<>>, preds |-> <<>>]

GraphAddNode(g, n) ==
    IF n \in Range(g.nodes) THEN g
    ELSE [nodes |-> Append(g.nodes, n), preds |-> g.preds @@ (n :> {})]

RECURSIVE GraphAddNodes(_, _)
GraphAddNodes(g, ns) ==
    IF ns = {} THEN g
    ELSE LET n == CHOOSE m \in ns : \A k \in ns : m <= k
         IN  GraphAddNodes(GraphAddNode(g, n), ns \ {n})

GraphInsert(g, n, predecessors) ==
    LET g1 == GraphAddNode(g, n)
        g2 == [g1 EXCEPT !.preds[n] = @ \cup predecessors]
    IN  GraphAddNodes(g2, predecessors)

RECURSIVE OrderedFrom(_, _)
OrderedFrom(g, placed) ==
    LET remaining == SelectSeq(g.nodes, LAMBDA n : n \notin Range(placed))
        ready == SelectSeq(remaining, LAMBDA n : g.preds[n] \subseteq Range(placed))
    IN  IF remaining = <<>> THEN [ok |-> TRUE, order |-> placed]
        ELSE IF ready = <<>> THEN [ok |-> FALSE, order |-> <<>>]
        ELSE OrderedFrom(g, Append(placed, Head(ready)))

Ordered(g) == OrderedFrom(g, <<>>)

\* The target graphs handed to build: n targets inserted in the order of
\* their numbers, each with any set of predecessors.
TargetGraphsOf(n) ==
    { [nodes |-> [i \in 1 .. n |-> i], preds |-> f] : f \in [1 .. n -> SUBSET (1 .. n)] }

TargetGraphs == UNION { TargetGraphsOf(n) : n \in 0 .. MaxTargets }

----------------------------------------------------------------------------
\* SortInvocations.

\* A mutant of MapInsert: the entry of an existing key is replaced.
MapInsertOverwriting(m, key, value) ==
    (key :> value) @@ m

\* std::unordered_map::insert: an existing entry is kept.
MapInsert(m, key, value) ==
    IF key \in DOMAIN m THEN m ELSE m @@ (key :> value)

RECURSIVE InsertOutputs(_, _, _)
InsertOutputs(m, outputs, i) ==
    IF outputs = <<>> THEN m
    ELSE InsertOutputs(MapInsert(m, Head(outputs), i), Tail(outputs), i)

RECURSIVE OutputToInvocationFrom(_, _, _)
OutputToInvocationFrom(m, invocations, i) ==
    IF i > Len(invocations) THEN m
    ELSE OutputToInvocationFrom(InsertOutputs(m, invocations[i].outputs, i),
                                invocations, i + 1)

OutputToInvocation(invocations) == OutputToInvocationFrom(<<>>, invocations, 1)

\* The invocations the map gives for the paths found in it.
Producers(m, paths) == {m[p] : p \in paths \cap DOMAIN m}

\* A mutant of InsertInvocation: the inputs add no edge.
InsertInvocationWithoutInputs(g, m, invocation, i) ==
    LET g0 == GraphInsert(g, i, {})
        g2 == GraphInsert(g0, i, Producers(m, invocation.phonyInputs))
    IN  GraphInsert(g2, i, Producers(m, invocation.inputDependencies))

\* Lines 93-112: the node of an invocation and the edges to it.
InsertInvocation(g, m, invocation, i) ==
    LET g0 == GraphInsert(g, i, {})
        g1 == GraphInsert(g0, i, Producers(m, invocation.inputs))
        g2 == GraphInsert(g1, i, Producers(m, invocation.phonyInputs))
    IN  GraphInsert(g2, i, Producers(m, invocation.inputDependencies))

RECURSIVE InvocationGraphFrom(_, _, _, _)
InvocationGraphFrom(g, m, invocations, i) ==
    IF i > Len(invocations) THEN g
    ELSE InvocationGraphFrom(InsertInvocation(g, m, invocations[i], i),
                             m, invocations, i + 1)

InvocationGraph(invocations) ==
    InvocationGraphFrom(EmptyGraph, OutputToInvocation(invocations), invocations, 1)

\* ok and the positions of the invocations in the order found.
SortInvocations(invocations) == Ordered(InvocationGraph(invocations))

----------------------------------------------------------------------------
\* The state of a run of build.

VARIABLES
    dryRun,             \* Executor::_dryRun
    targetGraph,        \* the targetGraph handed to build
    initialFilesystem,  \* the filesystem when build is called
    fs,                 \* the filesystem
    ran,                \* the tools run so far: <<target, invocation>>
    events,             \* the events the formatter has received
    pc,                 \* where build is: "build", "targets", "aux", "invocations", "done"
    returned,           \* what build returned: "none", "true", "false"
    orderedTargets,     \* build: orderedTargets.second
    targetIndex,        \* build: the position of the target loop
    targetInputs,       \* per target begun: whether its environment was derived,
                        \* and the invocations derived for it
    auxIndex,           \* writeAuxiliaryFiles: the position of the loops
    orderedInvocations, \* buildTarget: orderedInvocations.second
    createProductStructure, \* performInvocations: the pass
    invIndex,           \* performInvocations: the position of the loop
    failed,             \* the operation of the filesystem, the registry or a
                        \* tool that failed ("none": none did), and the
                        \* invocation it was done for (0: an auxiliary file)
    replay,             \* TRUE in the second of two runs over the same inputs
    dryRunEvents        \* the events of the first, dry, run of the two

vars == << dryRun, targetGraph, initialFilesystem, fs, ran, events, pc, returned,
           orderedTargets, targetIndex, targetInputs, auxIndex, orderedInvocations,
           createProductStructure, invIndex, failed, replay, dryRunEvents >>

NoFailure == [operation |-> "none", inv |-> 0]

Init ==
    /\ dryRun \in BOOLEAN
    /\ targetGraph \in TargetGraphs
    /\ initialFilesystem \in InitialFilesystems
    /\ fs = initialFilesystem
    /\ ran = {}
    /\ events = <<>>
    /\ pc = "build"
    /\ returned = "none"
    /\ orderedTargets = <<>>
    /\ targetIndex = 0
    /\ targetInputs = <<>>
    /\ auxIndex = 0
    /\ orderedInvocations = <<>>
    /\ createProductStructure = FALSE
    /\ invIndex = 0
    /\ failed = NoFailure
    /\ replay = FALSE
    /\ dryRunEvents = <<>>

\* The target of the current iteration of build's loop and its invocations.
Target == orderedTargets[targetIndex]
Invocations == targetInputs[Target].invocations

RECURSIVE AuxiliaryFilesOf(_)
AuxiliaryFilesOf(invocations) ==
    IF invocations = <<>> THEN <<>>
    ELSE Head(invocations).auxiliaryFiles \o AuxiliaryFilesOf(Tail(invocations))

RECURSIVE SumLen(_, _)
SumLen(f, ts) ==
    IF ts = {} THEN 0
    ELSE LET t == CHOOSE u \in ts : TRUE
         IN  Len(f[t].invocations) + SumLen(f, ts \ {t})

\* What the collaborators may answer for the target: no environment, or an
\* environment and a vector of invocations.  At most MaxInvocations
\* invocations are derived in one run; a second run over the same inputs
\* gets the answers of the first.
TargetAnswers(target) ==
    IF replay /\ target \in DOMAIN targetInputs
    THEN {targetInputs[target]}
    ELSE {[environment |-> FALSE, invocations |-> <<>>]} \cup
         { [environment |-> TRUE, invocations |-> l] :
             l \in InvocationLists(MaxInvocations - SumLen(targetInputs, DOMAIN targetInputs)) }

\* A mutant of FailBuild: finishTarget is not sent.
FailBuildWithoutFinishTarget(emitted, failing) ==
    /\ events' = events \o emitted \o << FailureEvent(failing) >>
    /\ returned' = "false"
    /\ pc' = "done"

\* build returns false out of buildTarget: lines 68-71.
FailBuild(emitted, failing) ==
    /\ events' = events \o emitted \o
                 << TargetEvent("finishTarget", Target), FailureEvent(failing) >>
    /\ returned' = "false"
    /\ pc' = "done"

----------------------------------------------------------------------------
\* build.

\* A mutant of Begin: the targets are taken in the order of their insertion.
BeginInInsertionOrder ==
    /\ pc = "build"
    /\ events' = Append(events, Event("begin"))
    /\ IF Ordered(targetGraph).ok
       THEN /\ orderedTargets' = targetGraph.nodes
            /\ targetIndex' = 1
            /\ pc' = "targets"
            /\ UNCHANGED returned
       ELSE /\ returned' = "false"
            /\ pc' = "done"
            /\ UNCHANGED << orderedTargets, targetIndex >>
    /\ UNCHANGED << dryRun, targetGraph, initialFilesystem, fs, ran, targetInputs,
                    auxIndex, orderedInvocations, createProductStructure, invIndex,
                    failed, replay, dryRunEvents >>

\* A mutant of Begin: the result of ordered() is not looked at.
BeginWithoutCycleCheck ==
    /\ pc = "build"
    /\ events' = Append(events, Event("begin"))
    /\ orderedTargets' = Ordered(targetGraph).order
    /\ targetIndex' = 1
    /\ pc' = "targets"
    /\ UNCHANGED << dryRun, targetGraph, initialFilesystem, fs, ran, returned,
                    targetInputs, auxIndex, orderedInvocations,
                    createProductStructure, invIndex, failed, replay, dryRunEvents >>

\* Lines 44-50: begin, and the order of the targets.
Begin ==
    /\ pc = "build"
    /\ LET ordered == Ordered(targetGraph)
       IN  /\ events' = Append(events, Event("begin"))
           /\ IF ordered.ok
              THEN /\ orderedTargets' = ordered.order
                   /\ targetIndex' = 1
                   /\ pc' = "targets"
                   /\ UNCHANGED returned
              ELSE /\ returned' = "false"
                   /\ pc' = "done"
                   /\ UNCHANGED << orderedTargets, targetIndex >>
    /\ UNCHANGED << dryRun, targetGraph, initialFilesystem, fs, ran, targetInputs,
                    auxIndex, orderedInvocations, createProductStructure, invIndex,
                    failed, replay, dryRunEvents >>

\* A mutant of SkipTarget: a target without environment ends the build.
SkipTargetStoppingBuild ==
    /\ pc = "targets"
    /\ targetIndex <= Len(orderedTargets)
    /\ \E answer \in TargetAnswers(Target) :
        /\ ~answer.environment
        /\ targetInputs' = (Target :> answer) @@ targetInputs
    /\ events' = events \o << TargetEvent("beginTarget", Target),
                              TargetEvent("finishTarget", Target),
                              FailureEvent(<<>>) >>
    /\ returned' = "false"
    /\ pc' = "done"
    /\ UNCHANGED << dryRun, targetGraph, initialFilesystem, fs, ran, targetIndex,
                    orderedTargets, auxIndex, orderedInvocations,
                    createProductStructure, invIndex, failed, replay, dryRunEvents >>

\* Lines 52-60: a target whose environment is not derived.
SkipTarget ==
    /\ pc = "targets"
    /\ targetIndex <= Len(orderedTargets)
    /\ \E answer \in TargetAnswers(Target) :
        /\ ~answer.environment
        /\ targetInputs' = (Target :> answer) @@ targetInputs
    /\ events' = events \o << TargetEvent("beginTarget", Target),
                              TargetEvent("finishTarget", Target) >>
    /\ targetIndex' = targetIndex + 1
    /\ UNCHANGED << dryRun, targetGraph, initialFilesystem, fs, ran, pc, returned,
                    orderedTargets, auxIndex, orderedInvocations,
                    createProductStructure, invIndex, failed, replay, dryRunEvents >>

\* A mutant of BeginTarget: writeAuxiliaryFiles is entered before
\* finishCheckDependencies is sent.
BeginTargetWritingEarly ==
    /\ pc = "targets"
    /\ targetIndex <= Len(orderedTargets)
    /\ \E answer \in TargetAnswers(Target) :
        /\ answer.environment
        /\ targetInputs' = (Target :> answer) @@ targetInputs
    /\ events' = events \o << TargetEvent("beginTarget", Target),
                              TargetEvent("beginCheckDependencies", Target),
                              TargetEvent("beginWriteAuxiliaryFiles", Target),
                              TargetEvent("finishCheckDependencies", Target) >>
    /\ auxIndex' = 1
    /\ pc' = "aux"
    /\ UNCHANGED << dryRun, targetGraph, initialFilesystem, fs, ran, returned,
                    orderedTargets, targetIndex, orderedInvocations,
                    createProductStructure, invIndex, failed, replay, dryRunEvents >>

\* Lines 52-67 and 134: a target with an environment, up to the entry of
\* writeAuxiliaryFiles.
BeginTarget ==
    /\ pc = "targets"
    /\ targetIndex <= Len(orderedTargets)
    /\ \E answer \in TargetAnswers(Target) :
        /\ answer.environment
        /\ targetInputs' = (Target :> answer) @@ targetInputs
    /\ events' = events \o << TargetEvent("beginTarget", Target),
                              TargetEvent("beginCheckDependencies", Target),
                              TargetEvent("finishCheckDependencies", Target),
                              TargetEvent("beginWriteAuxiliaryFiles", Target) >>
    /\ auxIndex' = 1
    /\ pc' = "aux"
    /\ UNCHANGED << dryRun, targetGraph, initialFilesystem, fs, ran, returned,
                    orderedTargets, targetIndex, orderedInvocations,
                    createProductStructure, invIndex, failed, replay, dryRunEvents >>

\* Lines 77-78.
Success ==
    /\ pc = "targets"
    /\ targetIndex > Len(orderedTargets)
    /\ events' = Append(events, Event("success"))
    /\ returned' = "true"
    /\ pc' = "done"
    /\ UNCHANGED << dryRun, targetGraph, initialFilesystem, fs, ran, orderedTargets,
                    targetIndex, targetInputs, auxIndex, orderedInvocations,
                    createProductStructure, invIndex, failed, replay, dryRunEvents >>

----------------------------------------------------------------------------
\* writeAuxiliaryFiles.

\* A mutant of AuxiliaryOutcomes: the operations are done, and may fail, in a
\* dry run too.
AuxiliaryOutcomesIgnoringDryRun(f, file, dry) ==
    LET directory == GetDirectoryName(file.path)
        written == [f EXCEPT !.contents[file.path] = file.contents]
    IN  {"ok", "open"} \cup
        (IF TestForDirectory(f, directory) THEN {} ELSE {"auxmkdir"}) \cup
        (IF file.executable /\ ~TestForExecute(written, file.path)
         THEN {"chmod"} ELSE {})

\* What can happen to one auxiliary file: everything works, or (not in a
\* dry run) CreateDirectory, the opening of the file or chmod fails.
AuxiliaryOutcomes(f, file, dry) ==
    LET directory == GetDirectoryName(file.path)
        written == [f EXCEPT !.contents[file.path] = file.contents]
    IN  {"ok"} \cup
        (IF dry THEN {}
         ELSE {"open"} \cup
              (IF TestForDirectory(f, directory) THEN {} ELSE {"auxmkdir"}) \cup
              (IF file.executable /\ ~TestForExecute(written, file.path)
               THEN {"chmod"} ELSE {}))

\* A mutant of WriteAuxiliaryFileStep: the result of chmod is not looked at.
WriteAuxiliaryFileStepIgnoringChmod(f, file, dry, outcome) ==
    LET directory == GetDirectoryName(file.path)
        needDirectory == ~TestForDirectory(f, directory)
        e1 == IF needDirectory
              THEN << PathEvent("createAuxiliaryDirectory", <<directory>>) >>
              ELSE <<>>
        f1 == IF needDirectory /\ ~dry
              THEN [f EXCEPT !.dirs = @ \cup {directory}]
              ELSE f
        e2 == << PathEvent("writeAuxiliaryFile", file.path) >>
        f2 == IF dry THEN f1
              ELSE [f1 EXCEPT !.contents[file.path] = file.contents]
        e3 == IF file.executable /\ ~TestForExecute(f2, file.path)
              THEN << PathEvent("setAuxiliaryExecutable", file.path) >>
              ELSE <<>>
    IN  CASE outcome = "auxmkdir" -> [ok |-> FALSE, events |-> e1, fs |-> f]
          [] outcome = "open" -> [ok |-> FALSE, events |-> e1 \o e2, fs |-> f1]
          [] OTHER             -> [ok |-> TRUE, events |-> e1 \o e2 \o e3, fs |-> f2]

\* Lines 137-169: one iteration of the inner loop.  ok: the loop goes on;
\* events: what the formatter is sent; fs: the filesystem afterwards.
WriteAuxiliaryFileStep(f, file, dry, outcome) ==
    LET directory == GetDirectoryName(file.path)
        needDirectory == ~TestForDirectory(f, directory)
        e1 == IF needDirectory
              THEN << PathEvent("createAuxiliaryDirectory", <<directory>>) >>
              ELSE <<>>
        f1 == IF needDirectory /\ ~dry
              THEN [f EXCEPT !.dirs = @ \cup {directory}]
              ELSE f
        e2 == << PathEvent("writeAuxiliaryFile", file.path) >>
        f2 == IF dry THEN f1
              ELSE [f1 EXCEPT !.contents[file.path] = file.contents]
        needMode == file.executable /\ ~TestForExecute(f2, file.path)
        e3 == IF needMode
              THEN << PathEvent("setAuxiliaryExecutable", file.path) >>
              ELSE <<>>
        f3 == IF needMode /\ ~dry
              THEN [f2 EXCEPT !.executable = @ \cup {file.path}]
              ELSE f2
    IN  CASE outcome = "auxmkdir" -> [ok |-> FALSE, events |-> e1, fs |-> f]
          [] outcome = "open" -> [ok |-> FALSE, events |-> e1 \o e2, fs |-> f1]
          [] outcome = "chmod" -> [ok |-> FALSE, events |-> e1 \o e2 \o e3, fs |-> f2]
          [] OTHER             -> [ok |-> TRUE, events |-> e1 \o e2 \o e3, fs |-> f3]

\* A mutant of WriteAuxiliaryFile: the files are taken from the last to the
\* first.
WriteAuxiliaryFileLastFirst ==
    /\ pc = "aux"
    /\ auxIndex <= Len(AuxiliaryFilesOf(Invocations))
    /\ LET files == AuxiliaryFilesOf(Invocations)
           file == files[Len(files) - auxIndex + 1]
       IN  \E outcome \in AuxiliaryOutcomes(fs, file, dryRun) :
             LET step == WriteAuxiliaryFileStep(fs, file, dryRun, outcome)
             IN  /\ fs' = step.fs
                 /\ failed' = IF outcome = "ok" THEN failed
                               ELSE [operation |-> outcome, inv |-> 0]
                 /\ IF step.ok
                    THEN /\ events' = events \o step.events
                         /\ auxIndex' = auxIndex + 1
                         /\ UNCHANGED << pc, returned >>
                    ELSE /\ FailBuild(step.events, <<>>)
                         /\ UNCHANGED auxIndex
    /\ UNCHANGED << dryRun, targetGraph, initialFilesystem, ran, orderedTargets,
                    targetIndex, targetInputs, orderedInvocations,
                    createProductStructure, invIndex, replay, dryRunEvents >>

\* Lines 135-171 (and 241-243, 68-71 when the file fails).
WriteAuxiliaryFile ==
    /\ pc = "aux"
    /\ auxIndex <= Len(AuxiliaryFilesOf(Invocations))
    /\ LET file == AuxiliaryFilesOf(Invocations)[auxIndex]
       IN  \E outcome \in AuxiliaryOutcomes(fs, file, dryRun) :
             LET step == WriteAuxiliaryFileStep(fs, file, dryRun, outcome)
             IN  /\ fs' = step.fs
                 /\ failed' = IF outcome = "ok" THEN failed
                               ELSE [operation |-> outcome, inv |-> 0]
                 /\ IF step.ok
                    THEN /\ events' = events \o step.events
                         /\ auxIndex' = auxIndex + 1
                         /\ UNCHANGED << pc, returned >>
                    ELSE /\ FailBuild(step.events, <<>>)
                         /\ UNCHANGED auxIndex
    /\ UNCHANGED << dryRun, targetGraph, initialFilesystem, ran, orderedTargets,
                    targetIndex, targetInputs, orderedInvocations,
                    createProductStructure, invIndex, replay, dryRunEvents >>

----------------------------------------------------------------------------
\* performInvocations.

\* A mutant of Skipped: the pass is not looked at.
SkippedWhateverThePass(invocation, pass) ==
    invocation.executable.path = ""

\* A mutant of Skipped: an invocation with a built-in name is not left out
\* for its empty path.
SkippedWhenNothingToRun(invocation, pass) ==
    \/ (invocation.executable.path = "" /\ invocation.executable.builtin = "")
    \/ invocation.createsProductStructure # pass

\* Lines 186-192: the invocations a pass leaves out.
Skipped(invocation, pass) ==
    \/ invocation.executable.path = ""
    \/ invocation.createsProductStructure # pass

\* What can happen to a dispatched invocation: <<"mkdir", k>>, CreateDirectory
\* fails for the k-th output (whose directory does not exist yet);
\* "nodriver", the registry has no such built-in; "spawn", the subprocess
\* does not start; "exit", the tool returns non-zero; "ok".
InvocationOutcomes(f, invocation, dry) ==
    LET outputs == invocation.outputs
        builtin == invocation.executable.builtin
        made(k) == f.dirs \cup {GetDirectoryName(outputs[h]) : h \in 1 .. (k - 1)}
    IN  IF dry THEN { <<"ok", 0>> }
        ELSE { <<"mkdir", k>> : k \in {j \in 1 .. Len(outputs) :
                                         GetDirectoryName(outputs[j]) \notin made(j)} }
             \cup
             (IF builtin # ""
              THEN (IF builtin \in Registry
                    THEN { <<"ok", 0>>, <<"exit", 0>> }
                    ELSE { <<"nodriver", 0>> })
              ELSE { <<"ok", 0>>, <<"spawn", 0>>, <<"exit", 0>> })

\* Lines 199-205: the directories of the first k outputs.
OutputDirectories(outputs, k) == {GetDirectoryName(outputs[h]) : h \in 1 .. k}

\* A mutant of ToolResult: the exit code is not looked at.
ToolResultIgnoringExitCode(outcome) ==
    [ok |-> outcome[1] \in {"ok", "exit"}, ran |-> outcome[1] \in {"ok", "exit"}]

\* Lines 207-226: the dispatch.  ok: the tool succeeded; ran: it was run.
ToolResult(outcome) ==
    [ok |-> outcome[1] = "ok", ran |-> outcome[1] \in {"ok", "exit"}]

\* A mutant of InvocationStep: the dry-run flag is not looked at.
InvocationStepIgnoringDryRun(f, invocation, dry, outcome) ==
    IF outcome[1] = "mkdir"
    THEN [ok |-> FALSE, finished |-> FALSE, ran |-> FALSE,
          fs |-> [f EXCEPT !.dirs = @ \cup OutputDirectories(invocation.outputs,
                                                              outcome[2] - 1)]]
    ELSE [ok |-> ToolResult(outcome).ok, finished |-> TRUE,
          ran |-> ToolResult(outcome).ran,
          fs |-> [f EXCEPT !.dirs = @ \cup OutputDirectories(invocation.outputs,
                                                              Len(invocation.outputs))]]

\* Lines 198-229 for one invocation.  ok: the invocation succeeded;
\* finished: finishInvocation was sent; ran: the tool was run.
InvocationStep(f, invocation, dry, outcome) ==
    IF dry
    THEN [ok |-> TRUE, finished |-> TRUE, ran |-> FALSE, fs |-> f]
    ELSE IF outcome[1] = "mkdir"
    THEN [ok |-> FALSE, finished |-> FALSE, ran |-> FALSE,
          fs |-> [f EXCEPT !.dirs = @ \cup OutputDirectories(invocation.outputs,
                                                              outcome[2] - 1)]]
    ELSE [ok |-> ToolResult(outcome).ok, finished |-> TRUE,
          ran |-> ToolResult(outcome).ran,
          fs |-> [f EXCEPT !.dirs = @ \cup OutputDirectories(invocation.outputs,
                                                              Len(invocation.outputs))]]

\* Lines 184-192: the loop goes on to the first invocation, at position
\* from or later, that the pass does not leave out (Len + 1: there is none).
RECURSIVE NextDispatched(_, _, _, _)
NextDispatched(invocations, order, from, pass) ==
    IF from > Len(order) THEN from
    ELSE IF Skipped(invocations[order[from]], pass)
         THEN NextDispatched(invocations, order, from + 1, pass)
         ELSE from

\* A mutant of PerformInvocation: a failure in the structure pass returns
\* before finishCreateProductStructure is sent.
PerformInvocationLeavingStructureOpen ==
    /\ pc = "invocations"
    /\ invIndex <= Len(orderedInvocations)
    /\ LET i == orderedInvocations[invIndex]
           invocation == Invocations[i]
           begin == InvocationEvent("beginInvocation", i, createProductStructure)
           finish == InvocationEvent("finishInvocation", i, createProductStructure)
       IN  /\ \E outcome \in InvocationOutcomes(fs, invocation, dryRun) :
                LET step == InvocationStep(fs, invocation, dryRun, outcome)
                    emitted == << begin >> \o
                               (IF step.finished THEN << finish >> ELSE <<>>)
                IN  /\ fs' = step.fs
                    /\ ran' = IF step.ran THEN ran \cup { <<Target, i>> } ELSE ran
                    /\ failed' = IF outcome[1] = "ok" THEN failed
                                  ELSE [operation |-> outcome[1], inv |-> i]
                    /\ IF step.ok
                       THEN /\ events' = events \o emitted
                            /\ invIndex' = NextDispatched(Invocations, orderedInvocations,
                                                           invIndex + 1,
                                                           createProductStructure)
                            /\ UNCHANGED << pc, returned >>
                       ELSE /\ FailBuild(emitted, << i >>)
                            /\ UNCHANGED invIndex
    /\ UNCHANGED << dryRun, targetGraph, initialFilesystem, orderedTargets,
                    targetIndex, targetInputs, auxIndex, orderedInvocations,
                    createProductStructure, replay, dryRunEvents >>

\* Lines 184-229 (and 253-255 or 259-260, 68-71 when the invocation fails).
PerformInvocation ==
    /\ pc = "invocations"
    /\ invIndex <= Len(orderedInvocations)
    /\ LET i == orderedInvocations[invIndex]
           invocation == Invocations[i]
           begin == InvocationEvent("beginInvocation", i, createProductStructure)
           finish == InvocationEvent("finishInvocation", i, createProductStructure)
       IN  /\ \E outcome \in InvocationOutcomes(fs, invocation, dryRun) :
                LET step == InvocationStep(fs, invocation, dryRun, outcome)
                    emitted == << begin >> \o
                               (IF step.finished THEN << finish >> ELSE <<>>)
                IN  /\ fs' = step.fs
                    /\ ran' = IF step.ran THEN ran \cup { <<Target, i>> } ELSE ran
                    /\ failed' = IF outcome[1] = "ok" THEN failed
                                  ELSE [operation |-> outcome[1], inv |-> i]
                    /\ IF step.ok
                       THEN /\ events' = events \o emitted
                            /\ invIndex' = NextDispatched(Invocations, orderedInvocations,
                                                           invIndex + 1,
                                                           createProductStructure)
                            /\ UNCHANGED << pc, returned >>
                       ELSE /\ FailBuild(
                                 emitted \o
                                 (IF createProductStructure
                                  THEN << TargetEvent("finishCreateProductStructure", Target) >>
                                  ELSE <<>>),
                                 << i >>)
                            /\ UNCHANGED invIndex
    /\ UNCHANGED << dryRun, targetGraph, initialFilesystem, orderedTargets,
                    targetIndex, targetInputs, auxIndex, orderedInvocations,
                    createProductStructure, replay, dryRunEvents >>

----------------------------------------------------------------------------
\* buildTarget.

\* Lines 172-174 and 245-251: the end of writeAuxiliaryFiles, the sort and
\* the entry of the structure pass (or 247-248 and 68-71 on a cycle).
FinishWriteAuxiliaryFiles ==
    /\ pc = "aux"
    /\ auxIndex > Len(AuxiliaryFilesOf(Invocations))
    /\ LET sorted == SortInvocations(Invocations)
           finish == TargetEvent("finishWriteAuxiliaryFiles", Target)
       IN  IF sorted.ok
           THEN /\ events' = events \o
                      << finish, TargetEvent("beginCreateProductStructure", Target) >>
                /\ orderedInvocations' = sorted.order
                /\ createProductStructure' = TRUE
                /\ invIndex' = NextDispatched(Invocations, sorted.order, 1, TRUE)
                /\ pc' = "invocations"
                /\ UNCHANGED returned
           ELSE /\ FailBuild(<< finish >>, <<>>)
                /\ UNCHANGED << orderedInvocations, createProductStructure, invIndex >>
    /\ UNCHANGED << dryRun, targetGraph, initialFilesystem, fs, ran, orderedTargets,
                    targetIndex, targetInputs, auxIndex, failed, replay, dryRunEvents >>

\* A mutant of FinishStructurePass: finishCreateProductStructure is not sent.
FinishStructurePassSilently ==
    /\ pc = "invocations"
    /\ createProductStructure
    /\ invIndex > Len(orderedInvocations)
    /\ createProductStructure' = FALSE
    /\ invIndex' = NextDispatched(Invocations, orderedInvocations, 1, FALSE)
    /\ UNCHANGED << dryRun, targetGraph, initialFilesystem, fs, ran, events, pc,
                    returned, orderedTargets, targetIndex, targetInputs, auxIndex,
                    orderedInvocations, failed, replay, dryRunEvents >>

\* Lines 232 and 253-258: the structure pass is over, the content pass begins.
FinishStructurePass ==
    /\ pc = "invocations"
    /\ createProductStructure
    /\ invIndex > Len(orderedInvocations)
    /\ events' = Append(events, TargetEvent("finishCreateProductStructure", Target))
    /\ createProductStructure' = FALSE
    /\ invIndex' = NextDispatched(Invocations, orderedInvocations, 1, FALSE)
    /\ UNCHANGED << dryRun, targetGraph, initialFilesystem, fs, ran, pc, returned,
                    orderedTargets, targetIndex, targetInputs, auxIndex,
                    orderedInvocations, failed, replay, dryRunEvents >>

\* A mutant of FinishTarget: finishTarget is not sent.
FinishTargetSilently ==
    /\ pc = "invocations"
    /\ ~createProductStructure
    /\ invIndex > Len(orderedInvocations)
    /\ targetIndex' = targetIndex + 1
    /\ pc' = "targets"
    /\ UNCHANGED << dryRun, targetGraph, initialFilesystem, fs, ran, events, returned,
                    orderedTargets, targetInputs, auxIndex, orderedInvocations,
                    createProductStructure, invIndex, failed, replay, dryRunEvents >>

\* Lines 232, 263 and 74: the content pass is over, and so is the target.
FinishTarget ==
    /\ pc = "invocations"
    /\ ~createProductStructure
    /\ invIndex > Len(orderedInvocations)
    /\ events' = Append(events, TargetEvent("finishTarget", Target))
    /\ targetIndex' = targetIndex + 1
    /\ pc' = "targets"
    /\ UNCHANGED << dryRun, targetGraph, initialFilesystem, fs, ran, returned,
                    orderedTargets, targetInputs, auxIndex, orderedInvocations,
                    createProductStructure, invIndex, failed, replay, dryRunEvents >>

----------------------------------------------------------------------------
\* The specification: one run of build.

Next ==
    \/ Begin
    \/ SkipTarget
    \/ BeginTarget
    \/ WriteAuxiliaryFile
    \/ FinishWriteAuxiliaryFiles
    \/ PerformInvocation
    \/ FinishStructurePass
    \/ FinishTarget
    \/ Success

Spec == Init /\ [][Next]_vars

----------------------------------------------------------------------------
\* Two runs over the same inputs and the same initial filesystem: a dry run,
\* then a run that is not dry.

Rerun ==
    /\ pc = "done"
    /\ dryRun
    /\ ~replay
    /\ dryRunEvents' = events
    /\ replay' = TRUE
    /\ dryRun' = FALSE
    /\ fs' = initialFilesystem
    /\ ran' = {}
    /\ events' = <<>>
    /\ pc' = "build"
    /\ returned' = "none"
    /\ orderedTargets' = <<>>
    /\ targetIndex' = 0
    /\ auxIndex' = 0
    /\ orderedInvocations' = <<>>
    /\ createProductStructure' = FALSE
    /\ invIndex' = 0
    /\ failed' = NoFailure
    /\ UNCHANGED << targetGraph, initialFilesystem, targetInputs >>

InitTwoRuns == Init /\ dryRun

NextTwoRuns == Next \/ Rerun

SpecTwoRuns == InitTwoRuns /\ [][NextTwoRuns]_vars

----------------------------------------------------------------------------
\* Reading the log of events.

Max(S) == CHOOSE m \in S : \A n \in S : n <= m
Min(S) == CHOOSE m \in S : \A n \in S : m <= n

Positions(type) == {k \in DOMAIN events : events[k].type = type}

TargetPositions(type, target) ==
    {k \in Positions(type) : events[k].target = target}

\* The target whose beginTarget is the last one at or before position k
\* (0: there is none).
TargetAt(k) ==
    LET begun == {j \in 1 .. k : events[j].type = "beginTarget"}
    IN  IF begun = {} THEN 0 ELSE events[Max(begun)].target

\* The invocation an invocation event at position k is about.
InvocationAt(k) == targetInputs[TargetAt(k)].invocations[events[k].inv]

\* The last n events.
LastEvents(n) == SubSeq(events, Len(events) - n + 1, Len(events))

RECURSIVE Ancestors(_, _, _)
Ancestors(preds, frontier, seen) ==
    LET new == UNION {preds[n] : n \in frontier} \ seen
    IN  IF new = {} THEN seen ELSE Ancestors(preds, new, seen \cup new)

\* A graph has a cycle when a node is among its own predecessors' predecessors.
Cyclic(g) == \E n \in Range(g.nodes) : n \in Ancestors(g.preds, {n}, {})

CyclicInvocations(invocations) == Cyclic(InvocationGraph(invocations))

\* The targets begun so far whose environment was derived.
BuiltTargets == {t \in DOMAIN targetInputs : targetInputs[t].environment}

----------------------------------------------------------------------------
\* C1.  Every beginInvocation is followed, as the very next event, by the
\* finishInvocation of the same invocation and pass, whatever makes the
\* invocation fail; and every finishInvocation follows such a beginInvocation.
BeginInvocationIsPaired ==
    /\ \A k \in Positions("beginInvocation") :
         /\ k < Len(events)
         /\ events[k + 1] = [events[k] EXCEPT !.type = "finishInvocation"]
    /\ \A k \in Positions("finishInvocation") :
         /\ k > 1
         /\ events[k - 1] = [events[k] EXCEPT !.type = "beginInvocation"]

\* C2.  In a dry run the filesystem stays as it was when build was called
\* and no tool is run.
DryRunHasNoSideEffect ==
    dryRun => fs = initialFilesystem /\ ran = {}

\* A dry run that returned true after announcing a directory, a file, a mode,
\* a built-in and an external tool with an output.
DryRunWitness ==
    /\ dryRun
    /\ returned = "true"
    /\ Positions("createAuxiliaryDirectory") # {}
    /\ Positions("writeAuxiliaryFile") # {}
    /\ Positions("setAuxiliaryExecutable") # {}
    /\ \E k \in Positions("beginInvocation") :
         InvocationAt(k).executable.builtin \in Registry
    /\ \E k \in Positions("beginInvocation") :
         /\ InvocationAt(k).executable.builtin = ""
         /\ InvocationAt(k).outputs # <<>>

\* C3.  A run that is not dry and returns true sent the formatter the events
\* that the dry run over the same inputs and the same initial filesystem
\* sent, in the same order.
DryRunEventsMatch ==
    (replay /\ returned = "true") => events = dryRunEvents

\* C4.  An acyclic target graph, every environment derived, every invocation
\* graph acyclic, no operation failing: build returns true; begin is the
\* first event and success the last, each sent once, failure never; every
\* target has one beginTarget and, after it, one finishTarget, with no event
\* of another target between them and after the finishTarget of each of its
\* predecessors.
SuccessfulBuildPremise ==
    /\ pc = "done"
    /\ ~Cyclic(targetGraph)
    /\ failed = NoFailure
    /\ \A t \in DOMAIN targetInputs :
         /\ targetInputs[t].environment
         /\ ~CyclicInvocations(targetInputs[t].invocations)

SuccessfulBuild ==
    SuccessfulBuildPremise =>
        /\ returned = "true"
        /\ Positions("begin") = {1}
        /\ Positions("success") = {Len(events)}
        /\ Positions("failure") = {}
        /\ \A t \in Range(targetGraph.nodes) :
             /\ Cardinality(TargetPositions("beginTarget", t)) = 1
             /\ Cardinality(TargetPositions("finishTarget", t)) = 1
             /\ \A b \in TargetPositions("beginTarget", t),
                  f \in TargetPositions("finishTarget", t) :
                  /\ b < f
                  /\ \A k \in (b + 1) .. (f - 1) :
                       events[k].type \notin {"beginTarget", "finishTarget"}
                  /\ \A p \in targetGraph.preds[t] :
                       \A q \in TargetPositions("finishTarget", p) : q < b

\* A build that is not dry returned true for two targets, the first
\* inserted depending on the second, each with a tool that was run.
SuccessfulBuildWitness ==
    /\ SuccessfulBuildPremise
    /\ ~dryRun
    /\ Len(targetGraph.nodes) = 2
    /\ targetGraph.preds[1] = {2}
    /\ \A t \in {1, 2} : \E i \in 1 .. MaxInvocations : <<t, i>> \in ran

\* C5.  A cycle in the target graph: build sends begin and nothing else,
\* derives nothing for any target, touches no file, runs no tool and
\* returns false.
TargetCycleStopsBuild ==
    Cyclic(targetGraph) =>
        /\ pc \in {"build", "done"}
        /\ pc = "done" => (returned = "false" /\ events = << Event("begin") >>)
        /\ pc = "build" => events = <<>>
        /\ targetInputs = <<>>
        /\ fs = initialFilesystem
        /\ ran = {}

\* build has returned for two targets, one depending on itself and the
\* other on nothing.
TargetCycleWitness ==
    /\ pc = "done"
    /\ Len(targetGraph.nodes) = 2
    /\ targetGraph.preds[1] = {1}
    /\ targetGraph.preds[2] = {}

\* The positions of the invocation events of a kind for invocation i of
\* target t.
InvocationPositions(type, t, i) ==
    {k \in Positions(type) : TargetAt(k) = t /\ events[k].inv = i}

\* Invocation a of target t has finished before every begin of invocation b.
Precedes(t, a, b) ==
    \A k \in InvocationPositions("beginInvocation", t, b) :
        \E q \in InvocationPositions("finishInvocation", t, a) : q < k

Consumed(invocation) ==
    invocation.inputs \cup invocation.phonyInputs \cup invocation.inputDependencies

\* The invocations that list path p among their outputs, and the first of them.
Listers(invocations, p) ==
    {j \in DOMAIN invocations : p \in Range(invocations[j].outputs)}

FirstListers(invocations, paths) ==
    {CHOOSE j \in Listers(invocations, p) : \A h \in Listers(invocations, p) : j <= h :
       p \in {q \in paths : Listers(invocations, q) # {}}}

\* C6.  A target whose invocation graph has a cycle: no invocation of it
\* begins, no tool of it runs and neither pass is entered; it is the last
\* target begun; and when build has returned, it returned false and the last
\* events are the finishTarget of that target and a failure with no
\* invocation.
InvocationCycleFailsBuild ==
    \A t \in BuiltTargets :
        CyclicInvocations(targetInputs[t].invocations) =>
            /\ pc \in {"aux", "done"}
            /\ t = Target
            /\ \A k \in Positions("beginTarget") :
                 k <= Max(TargetPositions("beginTarget", t))
            /\ \A k \in DOMAIN events :
                 TargetAt(k) = t =>
                    events[k].type \notin {"beginInvocation", "finishInvocation",
                                           "beginCreateProductStructure", "success"}
            /\ \A i \in DOMAIN targetInputs[t].invocations : <<t, i>> \notin ran
            /\ pc = "done" =>
                 /\ returned = "false"
                 /\ LastEvents(2) = << TargetEvent("finishTarget", t), FailureEvent(<<>>) >>

\* build, not dry, has returned from the first of two targets, whose
\* invocations, none of them phony, form a cycle; no operation failed.
InvocationCycleWitness ==
    /\ pc = "done"
    /\ ~dryRun
    /\ failed = NoFailure
    /\ Len(orderedTargets) = 2
    /\ targetIndex = 1
    /\ Target \in BuiltTargets
    /\ CyclicInvocations(Invocations)
    /\ \A i \in DOMAIN Invocations : Invocations[i].executable.path # ""

\* C7.  A dispatched invocation failed (the directory of an output, the
\* registry, the start of the subprocess, the exit code): the run is not
\* dry, build has returned false, the last events are the finishTarget of
\* the invocation's target and a failure with just that invocation, success
\* was not sent, and the failed invocation is the last one begun, in the
\* last target begun.
InvocationFailures == {"mkdir", "nodriver", "spawn", "exit"}

FailedInvocationStopsBuild ==
    failed.operation \in InvocationFailures =>
        /\ ~dryRun
        /\ pc = "done"
        /\ returned = "false"
        /\ LastEvents(2) = << TargetEvent("finishTarget", Target),
                              FailureEvent(<< failed.inv >>) >>
        /\ Cardinality(Positions("failure")) = 1
        /\ Positions("success") = {}
        /\ LET b == Max(Positions("beginInvocation"))
           IN  events[b].inv = failed.inv /\ TargetAt(b) = Target
        /\ events[Max(Positions("beginTarget"))].target = Target

\* The directory of an output could not be made, in the first of two targets,
\* with an invocation of the content pass still to come.
FailedInvocationWitness ==
    /\ failed.operation = "mkdir"
    /\ Len(orderedTargets) = 2
    /\ targetIndex = 1
    /\ \E j \in (invIndex + 1) .. Len(orderedInvocations) :
         ~Skipped(Invocations[orderedInvocations[j]], FALSE)

\* C8, as claimed.  An invocation begun in the content pass begins after the
\* finishInvocation of every invocation of its target that the content pass
\* dispatches and that lists one of its inputs, phony inputs or input
\* dependencies among its outputs.
ContentPassFollowsEveryProducer ==
    \A t \in BuiltTargets :
        LET invocations == targetInputs[t].invocations
        IN  \A i \in DOMAIN invocations, j \in DOMAIN invocations :
              ( /\ ~Skipped(invocations[i], FALSE)
                /\ ~Skipped(invocations[j], FALSE)
                /\ \E p \in Consumed(invocations[i]) : j \in Listers(invocations, p) )
              => Precedes(t, j, i)

\* C8, amended.  The same for the first invocation, in the order supplied,
\* that lists the path among its outputs.
ContentPassFollowsFirstProducer ==
    \A t \in BuiltTargets :
        LET invocations == targetInputs[t].invocations
        IN  \A i \in DOMAIN invocations :
              \A j \in FirstListers(invocations, Consumed(invocations[i])) :
                ( /\ ~Skipped(invocations[i], FALSE)
                  /\ ~Skipped(invocations[j], FALSE) )
                => Precedes(t, j, i)

\* A build, not dry, has returned true with a target in which a content-pass
\* invocation consumes a path that two content-pass invocations list, and
\* another in which the consumer is supplied before its producer.
ContentPassWitness ==
    /\ returned = "true"
    /\ ~dryRun
    /\ \E t \in BuiltTargets :
         LET invocations == targetInputs[t].invocations
         IN  \E i \in DOMAIN invocations, p \in Paths :
               /\ p \in Consumed(invocations[i])
               /\ ~Skipped(invocations[i], FALSE)
               /\ Cardinality(Listers(invocations, p)) = 2
               /\ \A j \in Listers(invocations, p) : ~Skipped(invocations[j], FALSE)
               /\ InvocationPositions("beginInvocation", t, i) # {}

\* C9, as claimed.  Over the two passes together, an invocation begins after
\* the finishInvocation of the producer of each of its inputs, when that
\* producer is dispatched.
ExecutionFollowsProducers ==
    \A t \in BuiltTargets :
        LET invocations == targetInputs[t].invocations
        IN  \A i \in DOMAIN invocations :
              \A j \in FirstListers(invocations, Consumed(invocations[i])) :
                ( /\ invocations[i].executable.path # ""
                  /\ invocations[j].executable.path # "" )
                => Precedes(t, j, i)

\* C9, amended.  The same, except when the consumer creates product structure
\* and the producer does not: then the consumer has finished before the
\* producer begins.
ExecutionFollowsProducersWithinPasses ==
    \A t \in BuiltTargets :
        LET invocations == targetInputs[t].invocations
        IN  \A i \in DOMAIN invocations :
              \A j \in FirstListers(invocations, Consumed(invocations[i])) :
                ( /\ invocations[i].executable.path # ""
                  /\ invocations[j].executable.path # "" )
                => IF /\ invocations[i].createsProductStructure
                      /\ ~invocations[j].createsProductStructure
                   THEN Precedes(t, i, j)
                   ELSE Precedes(t, j, i)

\* A build, not dry, has returned true with a target in which a structure-pass
\* tool consumes the output of a content-pass tool, and both were run.
ExecutionOrderWitness ==
    /\ returned = "true"
    /\ ~dryRun
    /\ \E t \in BuiltTargets :
         LET invocations == targetInputs[t].invocations
         IN  \E i \in DOMAIN invocations :
               \E j \in FirstListers(invocations, Consumed(invocations[i])) :
                 /\ invocations[i].createsProductStructure
                 /\ ~invocations[j].createsProductStructure
                 /\ <<t, i>> \in ran
                 /\ <<t, j>> \in ran

\* C10.  The begin and the finish of an invocation that creates product
\* structure lie after the beginCreateProductStructure of its target and
\* before its finishCreateProductStructure; those of any other invocation lie
\* after the finishCreateProductStructure of its target.
InvocationsLieInTheirPass ==
    \A k \in Positions("beginInvocation") \cup Positions("finishInvocation") :
        LET t == TargetAt(k)
            opened == TargetPositions("beginCreateProductStructure", t)
            closed == TargetPositions("finishCreateProductStructure", t)
        IN  IF InvocationAt(k).createsProductStructure
            THEN /\ events[k].phase
                 /\ \E b \in opened : b < k
                 /\ \A f \in closed : k < f
            ELSE /\ ~events[k].phase
                 /\ \E f \in closed : f < k

\* A build, not dry, has returned true with a target in which a tool ran in
\* each pass.
PassWitness ==
    /\ returned = "true"
    /\ ~dryRun
    /\ \E t \in BuiltTargets :
         /\ \E k \in Positions("beginInvocation") : TargetAt(k) = t /\ events[k].phase
         /\ \E k \in Positions("beginInvocation") : TargetAt(k) = t /\ ~events[k].phase

\* The targets begun so far whose environment was not derived.
SkippedTargets == DOMAIN targetInputs \ BuiltTargets

\* The position of target t in the order build follows.
OrderOf(t) == CHOOSE i \in DOMAIN orderedTargets : orderedTargets[i] = t

\* C11.  A target whose environment is not derived is sent beginTarget and,
\* as the very next event, finishTarget, and no other event names it; the
\* event after that, once build goes on, is the beginTarget of the next
\* target in order, or success after the last target; and a build in which
\* no operation failed and no invocation graph had a cycle returns true with
\* success as its last event and every target begun, skipped targets or not.
SkippedTargetContinues ==
    /\ \A t \in SkippedTargets :
         /\ Cardinality(TargetPositions("beginTarget", t)) = 1
         /\ {events[k].type : k \in {j \in DOMAIN events : events[j].target = t}}
              = {"beginTarget", "finishTarget"}
         /\ \A k \in TargetPositions("beginTarget", t) :
              /\ k < Len(events)
              /\ events[k + 1] = TargetEvent("finishTarget", t)
              /\ pc = "done" => k + 2 <= Len(events)
              /\ k + 2 <= Len(events) =>
                   events[k + 2] =
                     IF OrderOf(t) < Len(orderedTargets)
                     THEN TargetEvent("beginTarget", orderedTargets[OrderOf(t) + 1])
                     ELSE Event("success")
    /\ ( /\ pc = "done"
         /\ ~Cyclic(targetGraph)
         /\ failed = NoFailure
         /\ \A t \in BuiltTargets : ~CyclicInvocations(targetInputs[t].invocations) )
       => /\ returned = "true"
          /\ Positions("success") = {Len(events)}
          /\ Positions("failure") = {}
          /\ DOMAIN targetInputs = Range(targetGraph.nodes)

\* A build, not dry, returned true for two targets: the first in order had
\* no environment, the second ran a tool.
SkippedTargetWitness ==
    /\ returned = "true"
    /\ ~dryRun
    /\ Len(orderedTargets) = 2
    /\ orderedTargets[1] \in SkippedTargets
    /\ \E i \in 1 .. MaxInvocations : <<orderedTargets[2], i>> \in ran

\* The position of invocation i in the order the sorter found.
SortedPosition(order, i) == CHOOSE k \in DOMAIN order : order[k] = i

\* The paths that several invocations of a vector list among their outputs.
SharedOutputs(invocations) ==
    {p \in Paths : Cardinality(Listers(invocations, p)) >= 2}

\* C12, as claimed.  A path that several invocations of a target list among
\* their outputs is mapped to the one supplied last, and an invocation that
\* consumes the path has that one among its predecessors in the graph.
LaterProducerWins ==
    \A t \in BuiltTargets :
        LET invocations == targetInputs[t].invocations
        IN  \A p \in SharedOutputs(invocations) :
              /\ OutputToInvocation(invocations)[p] = Max(Listers(invocations, p))
              /\ \A i \in DOMAIN invocations :
                   p \in Consumed(invocations[i]) =>
                     Max(Listers(invocations, p)) \in InvocationGraph(invocations).preds[i]

\* C12, amended.  The path is mapped to the invocation supplied first; an
\* invocation that consumes the path has that one among its predecessors
\* and, when it is another invocation and the graph has no cycle, comes
\* after it in the order found.
EarlierProducerWins ==
    \A t \in BuiltTargets :
        LET invocations == targetInputs[t].invocations
            sorted == SortInvocations(invocations)
        IN  \A p \in SharedOutputs(invocations) :
              LET first == Min(Listers(invocations, p))
              IN  /\ OutputToInvocation(invocations)[p] = first
                  /\ \A i \in DOMAIN invocations :
                       p \in Consumed(invocations[i]) =>
                         /\ first \in InvocationGraph(invocations).preds[i]
                         /\ (sorted.ok /\ i # first) =>
                              SortedPosition(sorted.order, first)
                                < SortedPosition(sorted.order, i)
                  /\ (pc = "invocations" /\ t = Target) =>
                       orderedInvocations = sorted.order

\* The invocations of a target have been sorted: two of them list a path and
\* a third, supplied between the two, consumes it.
SharedOutputWitness ==
    /\ pc = "invocations"
    /\ Len(orderedInvocations) = 3
    /\ \E p \in SharedOutputs(Invocations) :
         \E i \in DOMAIN Invocations :
           /\ p \in Consumed(Invocations[i])
           /\ Min(Listers(Invocations, p)) < i
           /\ i < Max(Listers(Invocations, p))

\* The target begun last.
LastTarget == events[Max(Positions("beginTarget"))].target

\* The pass of target t has gone through all the invocations: the structure
\* pass when finishCreateProductStructure was sent and no invocation of that
\* pass failed, the content pass when finishTarget was sent after both
\* passes and nothing failed in the target.
PassDone(t, pass) ==
    IF pass
    THEN /\ TargetPositions("finishCreateProductStructure", t) # {}
         /\ \/ failed = NoFailure
            \/ t # LastTarget
            \/ ~events[Max(Positions("beginInvocation"))].phase
    ELSE /\ TargetPositions("finishCreateProductStructure", t) # {}
         /\ TargetPositions("finishTarget", t) # {}
         /\ (failed = NoFailure \/ t # LastTarget)

\* The positions of the events of a kind for invocation i of target t in a pass.
PassPositions(type, t, i, pass) ==
    {k \in InvocationPositions(type, t, i) : events[k].phase = pass}

\* In each pass an invocation that Leaves(invocation, pass) names is sent
\* neither beginInvocation nor finishInvocation; any other one, once the
\* pass has gone through, was sent beginInvocation once and, in a run that
\* is not dry, its tool was run.
SkipsExactly(Leaves(_, _)) ==
    \A t \in BuiltTargets : \A pass \in BOOLEAN :
        LET invocations == targetInputs[t].invocations
        IN  \A i \in DOMAIN invocations :
              IF Leaves(invocations[i], pass)
              THEN /\ PassPositions("beginInvocation", t, i, pass) = {}
                   /\ PassPositions("finishInvocation", t, i, pass) = {}
              ELSE PassDone(t, pass) =>
                   /\ Cardinality(PassPositions("beginInvocation", t, i, pass)) = 1
                   /\ ~dryRun => <<t, i>> \in ran

PhonyOrOtherPass(invocation, pass) ==
    \/ (invocation.executable.path = "" /\ invocation.executable.builtin = "")
    \/ invocation.createsProductStructure # pass

NoPathOrOtherPass(invocation, pass) ==
    \/ invocation.executable.path = ""
    \/ invocation.createsProductStructure # pass

\* C13, as claimed.  A pass leaves out exactly the invocations whose
\* executable path and built-in name are both empty and those whose
\* createsProductStructure differs from the pass.
SkipsExactlyPhonyOrOtherPass == SkipsExactly(PhonyOrOtherPass)

\* C13, amended.  A pass leaves out exactly the invocations whose executable
\* path is empty, whatever their built-in name, and those whose
\* createsProductStructure differs from the pass.
SkipsExactlyNoPathOrOtherPass == SkipsExactly(NoPathOrOtherPass)

\* A build, not dry, returned true with a target that has an invocation with
\* a built-in name and no path, a phony invocation and a tool that was run.
BuiltinWithoutPathWitness ==
    /\ returned = "true"
    /\ ~dryRun
    /\ \E t \in BuiltTargets :
         LET invocations == targetInputs[t].invocations
         IN  /\ \E i \in DOMAIN invocations :
                  /\ invocations[i].executable.path = ""
                  /\ invocations[i].executable.builtin \in Registry
             /\ \E i \in DOMAIN invocations :
                  /\ invocations[i].executable.path = ""
                  /\ invocations[i].executable.builtin = ""
             /\ \E i \in DOMAIN invocations : <<t, i>> \in ran

AuxiliaryFileEvents ==
    {"createAuxiliaryDirectory", "writeAuxiliaryFile", "setAuxiliaryExecutable"}

\* The positions of the events sent from the beginTarget of t up to the
\* next beginTarget (or the end of the log).
EventsOfTarget(t) ==
    LET begun == TargetPositions("beginTarget", t)
        next == {k \in Positions("beginTarget") : \A b \in begun : b < k}
    IN  IF begun = {} THEN {}
        ELSE Min(begun) .. (IF next = {} THEN Len(events) ELSE Min(next) - 1)

\* C14.  A target whose environment was derived is sent one
\* beginWriteAuxiliaryFiles and, once writeAuxiliaryFiles has returned, one
\* finishWriteAuxiliaryFiles after it, also when an operation on an
\* auxiliary file failed; the events about its auxiliary files lie between
\* the two.
AuxiliaryFilesAreBracketed ==
    \A t \in BuiltTargets :
        LET begins == TargetPositions("beginWriteAuxiliaryFiles", t)
            finishes == TargetPositions("finishWriteAuxiliaryFiles", t)
        IN  /\ Cardinality(begins) = 1
            /\ Cardinality(finishes) <= 1
            /\ (pc # "aux" \/ t # Target) => Cardinality(finishes) = 1
            /\ \A b \in begins, f \in finishes : b < f
            /\ \A k \in EventsOfTarget(t) :
                 events[k].type \in AuxiliaryFileEvents =>
                   /\ \E b \in begins : b < k
                   /\ \A f \in finishes : k < f

AuxiliaryFailures == {"auxmkdir", "open", "chmod"}

\* C15.  The directory of an auxiliary file could not be made, the file not
\* opened or its mode not set: the run is not dry; no later auxiliary file
\* of the target was announced; neither pass was entered and no invocation
\* of the target begun; build has returned false; the last events are the
\* finishTarget of the target and a failure with no invocation; success was
\* not sent; and the target is the last one begun.
FailedAuxiliaryFileStopsBuild ==
    failed.operation \in AuxiliaryFailures =>
        /\ ~dryRun
        /\ failed.inv = 0
        /\ pc = "done"
        /\ returned = "false"
        /\ LastEvents(2) = << TargetEvent("finishTarget", Target), FailureEvent(<<>>) >>
        /\ Cardinality(Positions("failure")) = 1
        /\ Positions("success") = {}
        /\ LastTarget = Target
        /\ Cardinality(TargetPositions("beginTarget", Target)) = 1
        /\ \A k \in EventsOfTarget(Target) :
             events[k].type \notin {"beginCreateProductStructure", "beginInvocation",
                                    "finishInvocation"}
        /\ Cardinality({k \in EventsOfTarget(Target) :
                          events[k].type = "writeAuxiliaryFile"})
             = IF failed.operation = "auxmkdir" THEN auxIndex - 1 ELSE auxIndex
        /\ \A i \in DOMAIN Invocations : <<Target, i>> \notin ran

\* The mode of an auxiliary file could not be set, in the first of two
\* targets, with another auxiliary file and a tool still to come.
FailedAuxiliaryFileWitness ==
    /\ failed.operation = "chmod"
    /\ Len(orderedTargets) = 2
    /\ targetIndex = 1
    /\ auxIndex < Len(AuxiliaryFilesOf(Invocations))
    /\ \E i \in DOMAIN Invocations : Invocations[i].executable.path # ""

\* The targets that were built with success: the environment was derived,
\* finishTarget was sent and nothing failed in the target.
SucceededTargets ==
    {t \in BuiltTargets :
       /\ TargetPositions("finishTarget", t) # {}
       /\ TargetPositions("finishCreateProductStructure", t) # {}
       /\ (failed = NoFailure \/ t # LastTarget)}

\* The events sent from the beginTarget of t to its finishTarget.
TargetLog(t) ==
    SubSeq(events, Min(TargetPositions("beginTarget", t)),
                   Max(TargetPositions("finishTarget", t)))

\* A sequence of events made of pairs, the beginInvocation of an invocation
\* in the pass and then its finishInvocation.
InvocationPairs(log, pass) ==
    /\ Len(log) % 2 = 0
    /\ \A k \in DOMAIN log :
         IF k % 2 = 1
         THEN log[k].type = "beginInvocation" /\ log[k].phase = pass
         ELSE log[k] = [log[k - 1] EXCEPT !.type = "finishInvocation"]

\* log is the record of a target built with success: the eight events of a
\* target in their order, the events about auxiliary files between the two
\* of writeAuxiliaryFiles, the pairs of the structure pass between the two
\* of the product structure, the pairs of the content pass after them.
TargetLogInOrder(log, t) ==
    \E w \in DOMAIN log, d \in DOMAIN log :
        /\ 5 <= w /\ w + 1 < d /\ d < Len(log)
        /\ SubSeq(log, 1, 4) = << TargetEvent("beginTarget", t),
                                  TargetEvent("beginCheckDependencies", t),
                                  TargetEvent("finishCheckDependencies", t),
                                  TargetEvent("beginWriteAuxiliaryFiles", t) >>
        /\ \A k \in 5 .. (w - 1) : log[k].type \in AuxiliaryFileEvents
        /\ log[w] = TargetEvent("finishWriteAuxiliaryFiles", t)
        /\ log[w + 1] = TargetEvent("beginCreateProductStructure", t)
        /\ InvocationPairs(SubSeq(log, w + 2, d - 1), TRUE)
        /\ log[d] = TargetEvent("finishCreateProductStructure", t)
        /\ InvocationPairs(SubSeq(log, d + 1, Len(log) - 1), FALSE)
        /\ log[Len(log)] = TargetEvent("finishTarget", t)

\* The paths of the writeAuxiliaryFile events of a log, in their order.
WrittenPaths(log) ==
    LET written == SelectSeq(log, LAMBDA e : e.type = "writeAuxiliaryFile")
    IN  [k \in DOMAIN written |-> written[k].path]

SuppliedPaths(invocations) ==
    LET files == AuxiliaryFilesOf(invocations)
    IN  [k \in DOMAIN files |-> files[k].path]

\* C16, as claimed.  The events of a target built with success are in that
\* order; when all its invocations are phony they are the eight events of a
\* target and nothing else.
TargetEventsInOrder ==
    \A t \in SucceededTargets :
        LET invocations == targetInputs[t].invocations
        IN  /\ TargetLogInOrder(TargetLog(t), t)
            /\ (\A i \in DOMAIN invocations :
                   /\ invocations[i].executable.path = ""
                   /\ invocations[i].executable.builtin = "")
               => Len(TargetLog(t)) = 8

\* C16, amended.  The events of a target built with success are in that
\* order; when all its invocations have an empty executable path no
\* invocation event is among them; and one writeAuxiliaryFile is among them
\* for each auxiliary file its invocations carry, phony or not.
TargetEventsInOrderWithAuxiliaryFiles ==
    \A t \in SucceededTargets :
        LET invocations == targetInputs[t].invocations
            log == TargetLog(t)
        IN  /\ TargetLogInOrder(log, t)
            /\ (\A i \in DOMAIN invocations : invocations[i].executable.path = "")
               => \A k \in DOMAIN log :
                    log[k].type \notin {"beginInvocation", "finishInvocation"}
            /\ WrittenPaths(log) = SuppliedPaths(invocations)
            /\ (AuxiliaryFilesOf(invocations) = <<>>) =>
                 \A k \in DOMAIN log : log[k].type \notin AuxiliaryFileEvents

\* A build, not dry, returned true for two targets: one wrote auxiliary files
\* and ran a tool in each pass, the other has a single invocation, phony,
\* with an auxiliary file.
TargetEventsWitness ==
    /\ returned = "true"
    /\ ~dryRun
    /\ \E t \in SucceededTargets, u \in SucceededTargets :
         /\ AuxiliaryFilesOf(targetInputs[t].invocations) # <<>>
         /\ \E i \in 1 .. MaxInvocations, j \in 1 .. MaxInvocations :
              /\ <<t, i>> \in ran /\ targetInputs[t].invocations[i].createsProductStructure
              /\ <<t, j>> \in ran /\ ~targetInputs[t].invocations[j].createsProductStructure
         /\ Len(targetInputs[u].invocations) = 1
         /\ targetInputs[u].invocations[1].executable = [path |-> "", builtin |-> ""]
         /\ targetInputs[u].invocations[1].auxiliaryFiles # <<>>

\* An invocation failed in the structure pass.
StructurePassFailed ==
    /\ failed.operation \in InvocationFailures
    /\ events[Max(Positions("beginInvocation"))].phase

\* C17.  A target is sent beginCreateProductStructure at most once and
\* finishCreateProductStructure only after it, at most once, and once as
\* soon as the structure pass is over, also when an invocation failed in
\* it; after such a failure the last events are finishCreateProductStructure,
\* finishTarget and a failure with just the failed invocation, and no
\* invocation of the target began in the content pass.
ProductStructureIsBracketed ==
    /\ \A t \in BuiltTargets :
         LET begins == TargetPositions("beginCreateProductStructure", t)
             finishes == TargetPositions("finishCreateProductStructure", t)
         IN  /\ Cardinality(begins) <= 1
             /\ Cardinality(finishes) <= 1
             /\ \A f \in finishes : \E b \in begins : b < f
             /\ (begins # {} /\ ~(pc = "invocations" /\ createProductStructure
                                                     /\ t = Target))
                => Cardinality(finishes) = 1
    /\ StructurePassFailed =>
         /\ pc = "done"
         /\ Invocations[failed.inv].createsProductStructure
         /\ LastEvents(3) = << TargetEvent("finishCreateProductStructure", Target),
                               TargetEvent("finishTarget", Target),
                               FailureEvent(<< failed.inv >>) >>
         /\ \A k \in EventsOfTarget(Target) :
              events[k].type = "beginInvocation" => events[k].phase

\* A tool of the structure pass returned non-zero, in the first of two
\* targets, with an invocation of the content pass still to come.
StructureFailureWitness ==
    /\ StructurePassFailed
    /\ failed.operation = "exit"
    /\ Len(orderedTargets) = 2
    /\ targetIndex = 1
    /\ \E i \in DOMAIN Invocations : ~Skipped(Invocations[i], FALSE)

\* The events that open or close a target or end the build.
BuildEvents == {"beginTarget", "finishTarget", "success", "failure"}

\* C18.  A target is sent beginTarget at most once; the next event after it
\* among beginTarget, finishTarget, success and failure is its finishTarget,
\* which has been sent when build has returned, and is sent once; success
\* and failure together are sent at most once, as the last event; build
\* returned true exactly when success was sent; and when build returned
\* false, failure was sent exactly when the target graph has no cycle.
TargetsAndBuildAreClosed ==
    /\ \A t \in Targets :
         /\ Cardinality(TargetPositions("beginTarget", t)) <= 1
         /\ Cardinality(TargetPositions("finishTarget", t)) <= 1
         /\ \A f \in TargetPositions("finishTarget", t) :
              \E b \in TargetPositions("beginTarget", t) : b < f
         /\ \A b \in TargetPositions("beginTarget", t) :
              LET later == {k \in (b + 1) .. Len(events) : events[k].type \in BuildEvents}
              IN  /\ later # {} => events[Min(later)] = TargetEvent("finishTarget", t)
                  /\ pc = "done" => later # {}
    /\ Cardinality(Positions("success") \cup Positions("failure")) <= 1
    /\ Positions("success") \cup Positions("failure") \subseteq {Len(events)}
    /\ (returned # "none") = (pc = "done")
    /\ (returned = "true") = (Positions("success") # {})
    /\ returned = "false" => ((Positions("failure") # {}) = ~Cyclic(targetGraph))

\* build returned false for two targets: the first had no environment, the
\* invocations of the second form a cycle.
ClosedTargetsWitness ==
    /\ returned = "false"
    /\ Len(orderedTargets) = 2
    /\ orderedTargets[1] \in SkippedTargets
    /\ orderedTargets[2] \in BuiltTargets
    /\ CyclicInvocations(targetInputs[orderedTargets[2]].invocations)

\* The contents the last of the files with that path gives it.
RECURSIVE LastContents(_, _)
LastContents(files, path) ==
    IF files[Len(files)].path = path THEN files[Len(files)].contents
    ELSE LastContents(SubSeq(files, 1, Len(files) - 1), path)

\* C19.  The writeAuxiliaryFile events of a target name the auxiliary files
\* of its invocations, phony or not, in the order the invocations were
\* supplied: the first of them while writeAuxiliaryFiles is at work, all of
\* them once it has sent finishWriteAuxiliaryFiles.  Each of them comes
\* before every beginInvocation of the target.  When build, not dry, has
\* returned for a cycle among the invocations of a target, every auxiliary
\* file of the target is on disk with its contents and, when executable,
\* its mode.
AuxiliaryFilesComeFirst ==
    \A t \in BuiltTargets :
        LET invocations == targetInputs[t].invocations
            files == AuxiliaryFilesOf(invocations)
            own == EventsOfTarget(t)
            written == WrittenPaths(SubSeq(events, Min(own), Max(own)))
            supplied == SuppliedPaths(invocations)
            writes == {k \in own : events[k].type = "writeAuxiliaryFile"}
            begins == {k \in own : events[k].type = "beginInvocation"}
        IN  /\ Len(written) <= Len(supplied)
            /\ written = SubSeq(supplied, 1, Len(written))
            /\ TargetPositions("finishWriteAuxiliaryFiles", t) # {} => written = supplied
            /\ \A w \in writes, b \in begins : w < b
            /\ ( /\ pc = "done"
                 /\ ~dryRun
                 /\ failed = NoFailure
                 /\ CyclicInvocations(invocations) )
               => \A k \in DOMAIN files :
                    /\ TestForDirectory(fs, GetDirectoryName(files[k].path))
                    /\ fs.contents[files[k].path] = LastContents(files, files[k].path)
                    /\ files[k].executable => TestForExecute(fs, files[k].path)

\* build, not dry, has returned for a cycle among the invocations of a
\* target; two of them, with no executable path, carry auxiliary files, and
\* the first supplied consumes an output of the second.
AuxiliaryFilesWitness ==
    /\ pc = "done"
    /\ ~dryRun
    /\ failed = NoFailure
    /\ initialFilesystem = EmptyFilesystem
    /\ \E t \in BuiltTargets :
         LET invocations == targetInputs[t].invocations
         IN  /\ CyclicInvocations(invocations)
             /\ \E i \in DOMAIN invocations, j \in DOMAIN invocations :
                  /\ i < j
                  /\ invocations[i].executable.path = ""
                  /\ invocations[j].executable.path = ""
                  /\ invocations[i].auxiliaryFiles # <<>>
                  /\ invocations[j].auxiliaryFiles # <<>>
                  /\ Consumed(invocations[i]) \cap Range(invocations[j].outputs) # {}

\* C20.  In a dry run no operation fails; build returns false only for a
\* cycle among the targets or among the invocations of a target whose
\* environment was derived, and returns true when there is none; and every
\* beginInvocation is followed at once by the finishInvocation of the same
\* invocation, once build has taken its next step.
DryRunFailsOnlyOnCycles ==
    dryRun =>
        /\ failed = NoFailure
        /\ returned = "false" =>
             \/ Cyclic(targetGraph)
             \/ \E t \in BuiltTargets : CyclicInvocations(targetInputs[t].invocations)
        /\ ( /\ pc = "done"
             /\ ~Cyclic(targetGraph)
             /\ \A t \in BuiltTargets : ~CyclicInvocations(targetInputs[t].invocations) )
           => /\ returned = "true"
              /\ DOMAIN targetInputs = Range(targetGraph.nodes)
        /\ \A k \in Positions("beginInvocation") :
             /\ k < Len(events)
             /\ events[k + 1] = [events[k] EXCEPT !.type = "finishInvocation"]
        /\ Cardinality(Positions("beginInvocation"))
             = Cardinality(Positions("finishInvocation"))

\* A dry run returned true after dispatching a built-in that the registry
\* does not know and a tool with an output in a directory that does not
\* exist, and after announcing an auxiliary file.
DryRunFailureWitness ==
    /\ dryRun
    /\ returned = "true"
    /\ \E k \in Positions("beginInvocation") :
         InvocationAt(k).executable.builtin \notin (Registry \cup {""})
    /\ \E k \in Positions("beginInvocation") :
         \E o \in Range(InvocationAt(k).outputs) :
           ~TestForDirectory(fs, GetDirectoryName(o))
    /\ Positions("writeAuxiliaryFile") # {}

====
